---- MODULE Spec2Model ----
(***************************************************************************)
(* A model of TravelGuide.py: the Streamlit form/session flow with the     *)
(* model-fallback loop of get_plan_markdown (specification Spec), the line *)
(* loop of markdown_to_flowables (specification SpecCompile) and the PDF   *)
(* export block run by two browser sessions of one server process          *)
(* (specification SpecPdf).                                                *)
(*                                                                         *)
(* Python strings are sequences of one-character strings, so that strip,   *)
(* startswith and splitlines are computed rather than assumed.             *)
(***************************************************************************)
EXTENDS Naturals, Sequences, FiniteSets, TLC

VARIABLES
    \* ---- one browser session: form, fallback loop, display -------------
    session_state,   \* st.session_state: a key -> value mapping
    pc,              \* position of the script run: "idle", "loop", "await"
    idx,             \* 1-based position of the for loop in FALLBACK_MODELS
    user_prompt,     \* the prompt of the running request
    inflight,        \* completion requests sent and not yet answered
    last_error,      \* get_plan_markdown's local last_error
    attempts,        \* the create() calls of this script run, in call order
    before,          \* plan_md / last_model_used when the request started
    result,          \* how the script run ended
    caption,         \* the "Model: ..." caption on the page
    plan_from,       \* the model whose completion the stored plan came from
    \* ---- markdown_to_flowables ----------------------------------------
    md_text,         \* the argument
    lines,           \* md_text.splitlines()
    i,               \* 0-based line index, as in the code
    flow,            \* the flowables appended so far
    items,           \* the list items of the list being collected
    cpc,             \* "outer", "inner" or "done"
    iter_start,      \* i when the running outer iteration began
    src,             \* for each element of flow, the lines it came from
    \* ---- PDF export, two sessions -------------------------------------
    plan_of,         \* session -> its st.session_state["plan_md"]
    ppc,             \* session -> position in the export block
    disk,            \* file name -> bytes, the server's working directory
    building,        \* session -> the document write_pdf has built
    offered,         \* session -> bytes handed to st.download_button
    clock            \* datetime.now(), in minutes

sessVars == <<session_state, pc, idx, user_prompt, inflight, last_error,
              attempts, before, result, caption, plan_from>>
compVars == <<md_text, lines, i, flow, items, cpc, iter_start, src>>
pdfVars  == <<plan_of, ppc, disk, building, offered, clock>>
vars     == <<sessVars, compVars, pdfVars>>

(***************************************************************************)
(* str methods                                                             *)
(***************************************************************************)
IsSpace(c) == c \in {" ", "\t", "\n"}

RECURSIVE lstrip(_)
lstrip(s) ==
    IF s = <<>> THEN <<>>
    ELSE IF IsSpace(Head(s)) THEN lstrip(Tail(s)) ELSE s

RECURSIVE rstrip(_)
rstrip(s) ==
    IF s = <<>> THEN <<>>
    ELSE IF IsSpace(s[Len(s)]) THEN rstrip(SubSeq(s, 1, Len(s) - 1)) ELSE s

strip(s) == lstrip(rstrip(s))

startswith(s, prefix) ==
    /\ Len(s) >= Len(prefix)
    /\ SubSeq(s, 1, Len(prefix)) = prefix

\* s[n:]
SliceFrom(s, n) == SubSeq(s, n + 1, Len(s))

\* str.splitlines() for the "\n" boundary: no empty last line after a
\* final "\n", and no line at all for the empty string.
RECURSIVE SplitFrom(_, _, _)
SplitFrom(s, k, cur) ==
    IF k > Len(s) THEN (IF cur = <<>> THEN <<>> ELSE <<cur>>)
    ELSE IF s[k] = "\n" THEN <<cur>> \o SplitFrom(s, k + 1, <<>>)
    ELSE SplitFrom(s, k + 1, Append(cur, s[k]))

splitlines(s) == SplitFrom(s, 1, <<>>)

(***************************************************************************)
(* Session state and callbacks                                             *)
(***************************************************************************)
FORM_KEYS == <<"destination", "days", "interests", "guardrails">>

MIN_DAYS == 1
MAX_DAYS == 30

Without(f, k) == [x \in DOMAIN f \ {k} |-> f[x]]
With(f, k, v) == (k :> v) @@ f

\* init_form_state on an empty session
init_form_state ==
    [k \in {"destination", "days", "interests", "guardrails", "plan_md"} |->
        IF k = "days" THEN MIN_DAYS ELSE <<>>]

\* for k in FORM_KEYS: 1 for "days", "" for the others
ClearedForm(ss) ==
    [k \in DOMAIN ss |->
        IF \E n \in 1..Len(FORM_KEYS) : FORM_KEYS[n] = k
        THEN (IF k = "days" THEN MIN_DAYS ELSE <<>>)
        ELSE ss[k]]

reset_all(ss) ==
    Without(Without([ClearedForm(ss) EXCEPT !["plan_md"] = <<>>],
                    "last_model_used"), "last_usage")

\* Variant: the loop of the callback runs over every key of the session,
\* plan_md included.
clear_fields_only_AllKeys(ss) == [ClearedForm(ss) EXCEPT !["plan_md"] = <<>>]

clear_fields_only(ss) == ClearedForm(ss)

\* DISPLAY LOGIC: the model caption shown with a plan, "none" when the
\* page shows no plan.  The PDF export block that follows the caption is
\* the subject of SpecPdf.
Display(ss) ==
    IF strip(ss["plan_md"]) # <<>>
    THEN (IF "last_model_used" \in DOMAIN ss THEN ss["last_model_used"]
          ELSE "unknown")
    ELSE "none"

(***************************************************************************)
(* Prompt, fallback ranking, extractor                                     *)
(***************************************************************************)
build_user_prompt(destination, days, interests, guardrails) ==
    [destination |-> destination,
     days        |-> days,
     interests   |-> IF interests = <<>> THEN <<"G">> ELSE interests,
     guardrails  |-> IF guardrails = <<>> THEN <<"N">> ELSE guardrails]

FALLBACK_MODELS == <<"gpt-5", "gpt-4o", "gpt-4-turbo">>

MAX_COMPLETION_TOKENS == 2000

Str(s)     == [isstr |-> TRUE, str |-> s]
NotAStr    == [isstr |-> FALSE, str |-> <<>>]
Comp(c)    == [choices |-> <<[message |-> [content |-> c]]>>, usage |-> "usage"]
NoChoices  == [choices |-> <<>>, usage |-> "usage"]

_extract_text_from_chat_completion(comp) ==
    IF Len(comp.choices) = 0 THEN <<>>       \* IndexError, swallowed
    ELSE LET txt == comp.choices[1].message.content
         IN  IF txt.isstr /\ strip(txt.str) # <<>> THEN txt.str ELSE <<>>

\* What the completion endpoint can do with one request.
Errors == {"APIConnectionError", "RateLimitError"}
Texts == {<<>>, <<" ">>, <<"A">>, <<" ", "B", "\n">>}
Completions == {NoChoices, Comp(NotAStr)} \cup {Comp(Str(t)) : t \in Texts}

\* What the user can type into the form.
Destinations == {<<>>, <<" ">>, <<"P">>}
Days == {MIN_DAYS, MAX_DAYS}
Interests == {<<>>, <<"m">>}
Guardrails == {<<>>, <<"k">>}

NoResult == [kind |-> "none", text |-> <<>>, last_error |-> "None"]

(***************************************************************************)
(* The form/session flow: one script run per user action                   *)
(***************************************************************************)
SessInit ==
    /\ session_state = init_form_state
    /\ pc = "idle"
    /\ idx = 1
    /\ user_prompt = build_user_prompt(<<>>, MIN_DAYS, <<>>, <<>>)
    /\ inflight = {}
    /\ last_error = "None"
    /\ attempts = <<>>
    /\ before = [plan_md |-> <<>>, last_model_used |-> "unset"]
    /\ result = NoResult
    /\ caption = "none"
    /\ plan_from = "none"

LastModel(ss) ==
    IF "last_model_used" \in DOMAIN ss THEN ss["last_model_used"] ELSE "unset"

FormSubmitted(ss, d, n, it, g) ==
    [k \in DOMAIN ss |->
        CASE k = "destination" -> d
          [] k = "days"        -> n
          [] k = "interests"   -> it
          [] k = "guardrails"  -> g
          [] OTHER             -> ss[k]]

\* Variant: the check reads another form field.
DestinationMissing_WrongField(ss) == ss["interests"] = <<>>

\* MAIN ACTION, line 251: `not st.session_state["destination"]`
DestinationMissing(ss) == ss["destination"] = <<>>

\* "Generate Travel Plan" with no destination: a warning, then the display
\* logic on the stored plan.
SubmitWithoutDestination(d, n, it, g) ==
    /\ pc = "idle"
    /\ LET ss == FormSubmitted(session_state, d, n, it, g)
       IN  /\ DestinationMissing(ss)
           /\ session_state' = ss
           /\ caption' = Display(ss)
    /\ result' = [NoResult EXCEPT !.kind = "warning"]
    /\ attempts' = <<>>
    /\ before' = [plan_md |-> session_state["plan_md"],
                  last_model_used |-> LastModel(session_state)]
    /\ UNCHANGED <<pc, idx, user_prompt, inflight, last_error, plan_from>>
    /\ UNCHANGED <<compVars, pdfVars>>

\* "Generate Travel Plan" with a destination: get_plan_markdown is entered.
SubmitWithDestination(d, n, it, g) ==
    /\ pc = "idle"
    /\ LET ss == FormSubmitted(session_state, d, n, it, g)
       IN  /\ ~DestinationMissing(ss)
           /\ session_state' = ss
           /\ user_prompt' = build_user_prompt(ss["destination"], ss["days"],
                                               ss["interests"], ss["guardrails"])
    /\ pc' = "loop"
    /\ idx' = 1
    /\ last_error' = "None"
    /\ attempts' = <<>>
    /\ before' = [plan_md |-> session_state["plan_md"],
                  last_model_used |-> LastModel(session_state)]
    /\ result' = NoResult
    /\ caption' = "none"
    /\ UNCHANGED <<inflight, plan_from>>
    /\ UNCHANGED <<compVars, pdfVars>>

\* client.chat.completions.create for the next model of the ranking
Create ==
    /\ pc = "loop"
    /\ idx <= Len(FALLBACK_MODELS)
    /\ inflight' = inflight \cup
           {[model |-> FALLBACK_MODELS[idx], messages |-> user_prompt,
             max_completion_tokens |-> MAX_COMPLETION_TOKENS]}
    /\ attempts' = Append(attempts,
           [model |-> FALLBACK_MODELS[idx], outcome |-> "pending",
            error |-> "None", comp |-> NoChoices])
    /\ pc' = "await"
    /\ UNCHANGED <<session_state, idx, user_prompt, last_error, before,
                   result, caption, plan_from>>
    /\ UNCHANGED <<compVars, pdfVars>>

\* the log entry of the answered call: what the endpoint did
Raised(e) ==
    [attempts EXCEPT ![Len(attempts)].outcome = "raised",
                     ![Len(attempts)].error = e]
Completed(comp) ==
    [attempts EXCEPT ![Len(attempts)].outcome = "completed",
                     ![Len(attempts)].comp = comp]

\* create raised: `except Exception as e: last_error = e; continue`
CreateRaises(e) ==
    /\ pc = "await"
    /\ inflight' = {}
    /\ last_error' = e
    /\ attempts' = Raised(e)
    /\ idx' = idx + 1
    /\ pc' = "loop"
    /\ UNCHANGED <<session_state, user_prompt, before, result, caption,
                   plan_from>>
    /\ UNCHANGED <<compVars, pdfVars>>

\* Variant: the model recorded is the head of the ranking, not the
\* candidate that answered.
StorePlan_FirstModel(ss, model_name, comp, text) ==
    [With(With(ss, "last_model_used", FALLBACK_MODELS[1]), "last_usage",
          comp.usage)
        EXCEPT !["plan_md"] = text]

\* lines 154-156 and 261, then the display logic
StorePlan(ss, model_name, comp, text) ==
    [With(With(ss, "last_model_used", model_name), "last_usage", comp.usage)
        EXCEPT !["plan_md"] = text]

\* Variant: the text is stored but the loop is not left.
CreateReturnsText_NoReturn(comp) ==
    /\ pc = "await"
    /\ LET text == _extract_text_from_chat_completion(comp)
       IN  /\ strip(text) # <<>>
           /\ session_state' =
                  StorePlan(session_state, FALLBACK_MODELS[idx], comp, text)
           /\ attempts' = Completed(comp)
    /\ \E m \in inflight : plan_from' = m.model
    /\ inflight' = {}
    /\ idx' = idx + 1
    /\ pc' = "loop"
    /\ UNCHANGED <<user_prompt, last_error, before, result, caption>>
    /\ UNCHANGED <<compVars, pdfVars>>

\* create returned a completion with usable text: return it
CreateReturnsText(comp) ==
    /\ pc = "await"
    /\ LET text == _extract_text_from_chat_completion(comp)
       IN  /\ strip(text) # <<>>
           /\ session_state' =
                  StorePlan(session_state, FALLBACK_MODELS[idx], comp, text)
           /\ attempts' = Completed(comp)
           /\ result' = [NoResult EXCEPT !.kind = "returned", !.text = text]
    /\ \E m \in inflight : plan_from' = m.model
    /\ inflight' = {}
    /\ caption' = Display(session_state')
    /\ pc' = "idle"
    /\ UNCHANGED <<idx, user_prompt, last_error, before>>
    /\ UNCHANGED <<compVars, pdfVars>>

\* Variant: last_model_used is assigned before the text is looked at.
CreateReturnsNothing_RecordsModel(comp) ==
    /\ pc = "await"
    /\ strip(_extract_text_from_chat_completion(comp)) = <<>>
    /\ session_state' =
           With(session_state, "last_model_used", FALLBACK_MODELS[idx])
    /\ inflight' = {}
    /\ attempts' = Completed(comp)
    /\ idx' = idx + 1
    /\ pc' = "loop"
    /\ UNCHANGED <<user_prompt, last_error, before, result, caption,
                   plan_from>>
    /\ UNCHANGED <<compVars, pdfVars>>

\* create returned a completion without usable text: next model
CreateReturnsNothing(comp) ==
    /\ pc = "await"
    /\ strip(_extract_text_from_chat_completion(comp)) = <<>>
    /\ inflight' = {}
    /\ attempts' = Completed(comp)
    /\ idx' = idx + 1
    /\ pc' = "loop"
    /\ UNCHANGED <<session_state, user_prompt, last_error, before, result,
                   caption, plan_from>>
    /\ UNCHANGED <<compVars, pdfVars>>

\* line 161: the ranking is exhausted; the RuntimeError ends the script run
\* before line 261 assigns and before the display logic.
Exhausted ==
    /\ pc = "loop"
    /\ idx > Len(FALLBACK_MODELS)
    /\ result' = [NoResult EXCEPT !.kind = "RuntimeError",
                                  !.last_error = last_error]
    /\ caption' = "none"
    /\ pc' = "idle"
    /\ UNCHANGED <<session_state, idx, user_prompt, inflight, last_error,
                   attempts, before, plan_from>>
    /\ UNCHANGED <<compVars, pdfVars>>

\* "Reset form + clear plan": the callback, then a script run
reset_all_callback ==
    /\ pc = "idle"
    /\ session_state' = reset_all(session_state)
    /\ caption' = Display(session_state')
    /\ result' = NoResult
    /\ attempts' = <<>>
    /\ plan_from' = "none"
    /\ UNCHANGED <<pc, idx, user_prompt, inflight, last_error, before>>
    /\ UNCHANGED <<compVars, pdfVars>>

\* "Clear fields only": the callback, then a script run
clear_fields_only_callback ==
    /\ pc = "idle"
    /\ session_state' = clear_fields_only(session_state)
    /\ caption' = Display(session_state')
    /\ result' = NoResult
    /\ attempts' = <<>>
    /\ UNCHANGED plan_from
    /\ UNCHANGED <<pc, idx, user_prompt, inflight, last_error, before>>
    /\ UNCHANGED <<compVars, pdfVars>>

CompIdle ==
    /\ md_text = <<>>
    /\ lines = <<>>
    /\ i = 0
    /\ flow = <<>>
    /\ items = <<>>
    /\ cpc = "done"
    /\ iter_start = 0
    /\ src = <<>>

PdfIdle ==
    /\ plan_of = <<>>
    /\ ppc = <<>>
    /\ disk = <<>>
    /\ building = <<>>
    /\ offered = <<>>
    /\ clock = 0

Init == SessInit /\ CompIdle /\ PdfIdle

Next ==
    \/ \E d \in Destinations, n \in Days, it \in Interests, g \in Guardrails :
           SubmitWithoutDestination(d, n, it, g)
    \/ \E d \in Destinations, n \in Days, it \in Interests, g \in Guardrails :
           SubmitWithDestination(d, n, it, g)
    \/ Create
    \/ \E e \in Errors : CreateRaises(e)
    \/ \E comp \in Completions : CreateReturnsText(comp)
    \/ \E comp \in Completions : CreateReturnsNothing(comp)
    \/ Exhausted
    \/ reset_all_callback
    \/ clear_fields_only_callback

Spec == Init /\ [][Next]_vars

(***************************************************************************)
(* Properties of the fallback loop and the session flow (Spec)             *)
(***************************************************************************)
PlanMd == session_state["plan_md"]

\* What a candidate did, read off the endpoint's answer alone.
HasVisibleChar(t) == \E k \in 1..Len(t) : t[k] \notin {" ", "\t", "\n"}
ReturnedText(a) ==
    /\ a.outcome = "completed"
    /\ Len(a.comp.choices) > 0
    /\ a.comp.choices[1].message.content.isstr
    /\ HasVisibleChar(a.comp.choices[1].message.content.str)
Failed(a) == a.outcome = "raised" \/ (a.outcome = "completed" /\ ~ReturnedText(a))
ResponseText(a) == a.comp.choices[1].message.content.str
LastAttempt == attempts[Len(attempts)]

\* C1: candidates are invoked in ranking order, each at most once; the
\* first one that returns non-empty text ends the loop, its text is the
\* return value and the stored plan, its identifier is recorded as the
\* model used, and no candidate ranked after it is invoked.
C1_FirstSuccessWins ==
    /\ Len(attempts) <= Len(FALLBACK_MODELS)
    /\ \A k \in 1..Len(attempts) : attempts[k].model = FALLBACK_MODELS[k]
    /\ \A k \in 1..Len(attempts) : k < Len(attempts) => Failed(attempts[k])
    /\ attempts # <<>> /\ ReturnedText(LastAttempt) =>
           /\ pc = "idle"
           /\ inflight = {}
           /\ result.kind = "returned"
           /\ result.text = ResponseText(LastAttempt)
           /\ PlanMd = ResponseText(LastAttempt)
           /\ LastModel(session_state) = LastAttempt.model
    /\ result.kind = "returned" => attempts # <<>> /\ ReturnedText(LastAttempt)

\* C1 witness: the first two candidates fail, one by an error and one by
\* an empty answer, and the third returns text.
C1_Witness ==
    /\ result.kind = "returned"
    /\ Len(attempts) = 3
    /\ attempts[1].outcome = "raised"
    /\ attempts[2].outcome = "completed"
    /\ LastModel(session_state) = "gpt-4-turbo"

\* C2: when every candidate fails, the RuntimeError carries the failure of
\* the last-ranked candidate.
C2_CarriesFinalFailure ==
    result.kind = "RuntimeError" =>
        /\ Len(attempts) = Len(FALLBACK_MODELS)
        /\ LastAttempt.outcome = "raised"
        /\ result.last_error = LastAttempt.error

\* C7: a completion request exists only while the destination is
\* non-empty, and carries that destination; a submit without destination
\* issues no request and leaves the stored plan as it was.
C7_RequestNeedsDestination ==
    /\ \A m \in inflight :
           /\ session_state["destination"] # <<>>
           /\ m.messages.destination = session_state["destination"]
    /\ attempts # <<>> => session_state["destination"] # <<>>
    /\ pc # "idle" => session_state["destination"] # <<>>
    /\ result.kind = "warning" =>
           /\ session_state["destination"] = <<>>
           /\ attempts = <<>>
           /\ inflight = {}
           /\ pc = "idle"
           /\ PlanMd = before.plan_md
           /\ LastModel(session_state) = before.last_model_used

\* C7 witness: a submit without destination while a plan is stored.
C7_Witness ==
    /\ result.kind = "warning"
    /\ PlanMd # <<>>

\* C8 as stated: once plan_md is non-empty it never changes.
C8_ImmutableOnceSet ==
    [][PlanMd # <<>> => PlanMd' = PlanMd]_vars

\* C8 as amended: plan_md changes only when a request returns text (to
\* that non-blank text) or when reset_all_callback runs (to the empty
\* string); every other step leaves it as it is.
C8_ChangesOnlyBySuccessOrReset ==
    [][PlanMd' # PlanMd =>
          \/ /\ result'.kind = "returned"
             /\ PlanMd' = result'.text
             /\ HasVisibleChar(PlanMd')
          \/ /\ reset_all_callback
             /\ PlanMd' = <<>>]_vars

\* C8 witness: a second successful request has replaced a stored plan.
C8_Witness ==
    /\ result.kind = "returned"
    /\ before.plan_md # <<>>
    /\ PlanMd # before.plan_md

\* C9: no single candidate's failure ends the request; only exhaustion of
\* the whole ranking raises, and then plan_md and last_model_used are what
\* they were before the request.
C9_ExhaustionStoresNothing ==
    /\ pc # "idle" => result.kind = "none"
    /\ result.kind = "RuntimeError" =>
           /\ Len(attempts) = Len(FALLBACK_MODELS)
           /\ \A k \in 1..Len(attempts) : Failed(attempts[k])
           /\ PlanMd = before.plan_md
           /\ LastModel(session_state) = before.last_model_used
           /\ caption = "none"
    /\ pc # "idle" =>
           /\ PlanMd = before.plan_md
           /\ LastModel(session_state) = before.last_model_used

\* C9 witness: exhaustion while a plan of an earlier request is stored.
C9_Witness ==
    /\ result.kind = "RuntimeError"
    /\ before.plan_md # <<>>
    /\ attempts[1].outcome = "raised"
    /\ attempts[2].outcome = "completed"

InRanking(m) == \E k \in 1..Len(FALLBACK_MODELS) : FALLBACK_MODELS[k] = m

\* C10: between user actions a non-blank stored plan always comes with a
\* last_model_used that is in the ranking and names the candidate whose
\* completion is the plan, so the caption never reads "unknown";
\* clear_fields_only_callback keeps both and reset_all_callback clears both.
C10_PlanHasItsModel ==
    /\ [](/\ caption # "unknown"
          /\ pc = "idle" /\ HasVisibleChar(PlanMd) =>
                /\ "last_model_used" \in DOMAIN session_state
                /\ InRanking(session_state["last_model_used"])
                /\ session_state["last_model_used"] = plan_from
                /\ caption \in {"none", session_state["last_model_used"]})
    /\ [][/\ clear_fields_only_callback =>
                /\ PlanMd' = PlanMd
                /\ LastModel(session_state') = LastModel(session_state)
          /\ reset_all_callback =>
                /\ PlanMd' = <<>>
                /\ "last_model_used" \notin DOMAIN session_state']_vars

\* C10 witness: the fields were cleared and the plan of the third
\* candidate is still stored and labelled.
C10_Witness ==
    /\ pc = "idle"
    /\ result.kind = "none"
    /\ HasVisibleChar(PlanMd)
    /\ session_state["destination"] = <<>>
    /\ session_state["last_model_used"] = "gpt-4-turbo"

(***************************************************************************)
(* markdown_to_flowables                                                   *)
(***************************************************************************)
\* U+2022, the bullet dot; the strings of this module are ASCII.
Dot == "@"
BulletChars == {"-", "*", Dot}

SPACER_BLANK == 6
SPACER_LIST == 4

Paragraph(text, style) ==
    [kind |-> "Paragraph", style |-> style, text |-> text, items |-> <<>>,
     height |-> 0]
Spacer(h) ==
    [kind |-> "Spacer", style |-> "", text |-> <<>>, items |-> <<>>,
     height |-> h]
ListFlowable(its) ==
    [kind |-> "ListFlowable", style |-> "bullet", text |-> <<>>,
     items |-> its, height |-> 0]

\* s.lstrip().startswith(("-", "*", bullet dot))
BulletPrefixed(s) == lstrip(s) # <<>> /\ Head(lstrip(s)) \in BulletChars

\* line 191, on line = lines[i].rstrip()
OuterListTest(line) == BulletPrefixed(line)

\* Variant: the inner test without lstrip.
InnerListTest_NoLstrip(raw) == raw # <<>> /\ Head(raw) \in BulletChars

\* line 193, on lines[i] itself
InnerListTest(raw) == BulletPrefixed(raw)

\* Variant: the bullet character is kept.
bullet_text_KeepsBullet(raw) == strip(lstrip(raw))

\* line 194: lines[i].lstrip()[1:].strip()
bullet_text(raw) == strip(SliceFrom(lstrip(raw), 1))

\* lines 177-201: the branch taken for line = lines[i].rstrip()
Branch(line) ==
    IF strip(line) = <<>> THEN "blank"
    ELSE IF startswith(line, <<"#", "#", " ">>) THEN "h2"
    ELSE IF startswith(line, <<"#", "#", "#", " ">>) THEN "h3"
    ELSE IF OuterListTest(line) THEN "list"
    ELSE "paragraph"

\* line 183, line 187, line 201
Heading2Of(line) == Paragraph(strip(SliceFrom(line, 3)), "H2")
Heading3Of(line) == Paragraph(strip(SliceFrom(line, 4)), "H3")
BodyOf(line) == Paragraph(line, "BodyText")

CurLine == rstrip(lines[i + 1])

\* flow.append(f); i += 1; continue
EmitOne(f) ==
    /\ flow' = Append(flow, f)
    /\ src' = Append(src, [first |-> i + 1, last |-> i + 1])
    /\ i' = i + 1
    /\ iter_start' = i'
    /\ UNCHANGED <<md_text, lines, items, cpc>>
    /\ UNCHANGED <<sessVars, pdfVars>>

AtLine(b) == cpc = "outer" /\ i < Len(lines) /\ Branch(CurLine) = b

\* lines 177-180
BlankLine ==
    /\ AtLine("blank")
    /\ EmitOne(Spacer(SPACER_BLANK))

\* lines 182-185
Heading2 ==
    /\ AtLine("h2")
    /\ EmitOne(Heading2Of(CurLine))

\* lines 186-189
Heading3 ==
    /\ AtLine("h3")
    /\ EmitOne(Heading3Of(CurLine))

\* lines 201-202
PlainParagraph ==
    /\ AtLine("paragraph")
    /\ EmitOne(BodyOf(CurLine))

\* line 191-192: a list starts
ListStart ==
    /\ AtLine("list")
    /\ items' = <<>>
    /\ cpc' = "inner"
    /\ UNCHANGED <<md_text, lines, i, flow, iter_start, src>>
    /\ UNCHANGED <<sessVars, pdfVars>>

\* lines 193-196: one turn of the inner while loop
ListItemStep ==
    /\ cpc = "inner"
    /\ i < Len(lines) /\ InnerListTest(lines[i + 1])
    /\ items' = Append(items, bullet_text(lines[i + 1]))
    /\ i' = i + 1
    /\ UNCHANGED <<md_text, lines, flow, cpc, iter_start, src>>
    /\ UNCHANGED <<sessVars, pdfVars>>

\* lines 197-199: the inner loop is left
ListEnd ==
    /\ cpc = "inner"
    /\ ~(i < Len(lines) /\ InnerListTest(lines[i + 1]))
    /\ flow' = flow \o <<ListFlowable(items), Spacer(SPACER_LIST)>>
    /\ src' = src \o <<[first |-> iter_start + 1, last |-> i],
                       [first |-> iter_start + 1, last |-> i]>>
    /\ items' = <<>>
    /\ cpc' = "outer"
    /\ iter_start' = i
    /\ UNCHANGED <<md_text, lines, i>>
    /\ UNCHANGED <<sessVars, pdfVars>>

\* line 204
ReturnFlow ==
    /\ cpc = "outer"
    /\ i >= Len(lines)
    /\ cpc' = "done"
    /\ UNCHANGED <<md_text, lines, i, flow, items, iter_start, src>>
    /\ UNCHANGED <<sessVars, pdfVars>>

\* The markdown texts the function is run on.
MaxLines == 4
LineSet ==
    { <<>>,
      <<" ">>,
      <<"#", "#", " ", "A">>,
      <<"#", "#", " ">>,
      <<"#", "#", "#", " ", "B", " ">>,
      <<"-", " ", "x">>,
      <<" ", "*", " ", "y", " ">>,
      <<Dot>>,
      <<" ", "p", " ">> }

RECURSIVE JoinLines(_)
JoinLines(ls) ==
    IF ls = <<>> THEN <<>>
    ELSE IF Len(ls) = 1 THEN ls[1]
    ELSE ls[1] \o <<"\n">> \o JoinLines(Tail(ls))

MarkdownTexts ==
    { JoinLines(ls) : ls \in UNION { [1..n -> LineSet] : n \in 0..MaxLines } }

CompInit ==
    /\ md_text \in MarkdownTexts
    /\ lines = splitlines(md_text)
    /\ i = 0
    /\ flow = <<>>
    /\ items = <<>>
    /\ cpc = "outer"
    /\ iter_start = 0
    /\ src = <<>>

InitCompile == CompInit /\ SessInit /\ PdfIdle

CompNext ==
    \/ BlankLine
    \/ Heading2
    \/ Heading3
    \/ ListStart
    \/ ListItemStep
    \/ ListEnd
    \/ PlainParagraph
    \/ ReturnFlow

\* The interpreter keeps running the loop: weak fairness of its steps.
SpecCompile ==
    /\ InitCompile
    /\ [][CompNext]_vars
    /\ WF_vars(CompNext)

(***************************************************************************)
(* write_pdf and the PDF export block, run by two sessions of one server   *)
(***************************************************************************)
\* the index after the list lines that start at index k (0-based)
RECURSIVE RunEnd(_, _)
RunEnd(ls, k) ==
    IF k < Len(ls) /\ InnerListTest(ls[k + 1]) THEN RunEnd(ls, k + 1) ELSE k

\* the loop of lines 174-202 from index k on, as a function of the lines
RECURSIVE FlowFrom(_, _)
FlowFrom(ls, k) ==
    IF k >= Len(ls) THEN <<>>
    ELSE LET line == rstrip(ls[k + 1])
             b    == Branch(line)
             e    == RunEnd(ls, k)
         IN  CASE b = "blank" -> <<Spacer(SPACER_BLANK)>> \o FlowFrom(ls, k + 1)
               [] b = "h2"    -> <<Heading2Of(line)>> \o FlowFrom(ls, k + 1)
               [] b = "h3"    -> <<Heading3Of(line)>> \o FlowFrom(ls, k + 1)
               [] b = "list"  ->
                      <<ListFlowable([n \in 1..(e - k) |-> bullet_text(ls[k + n])]),
                        Spacer(SPACER_LIST)>> \o FlowFrom(ls, e)
               [] OTHER       -> <<BodyOf(line)>> \o FlowFrom(ls, k + 1)

markdown_to_flowables(text) == FlowFrom(splitlines(text), 0)

SPACER_HEADER == 10

\* lines 219-225: the story of the document
Story(markdown_text, now) ==
    <<Paragraph(<<"Personalized Travel Plan">>, "Header"),
      Paragraph(<<"Generated: ", ToString(now)>>, "Normal"),
      Spacer(SPACER_HEADER)>> \o markdown_to_flowables(markdown_text)

\* The bytes of a file: <<>> for an empty file, <<story>> for a document.
PDF_PATH == "travel_plan.pdf"

Sessions == {1, 2}
MaxClock == 1

\* Plans the sessions hold: non-blank texts get_plan_markdown can return.
PlanTexts ==
    { JoinLines(<<<<"#", "#", " ", "A">>, <<"-", " ", "x">>>>),
      JoinLines(<<<<" ", "p", " ">>>>) }

InitPdf ==
    /\ plan_of \in [Sessions -> PlanTexts]
    /\ ppc = [s \in Sessions |-> "idle"]
    /\ disk = <<>>
    /\ building = [s \in Sessions |-> <<>>]
    /\ offered = [s \in Sessions |-> <<>>]
    /\ clock = 0
    /\ SessInit /\ CompIdle

\* line 264 holds for the session's plan: the script reaches line 276 and
\* write_pdf builds the story (lines 207-225)
BuildStory(s) ==
    /\ ppc[s] = "idle"
    /\ strip(plan_of[s]) # <<>>
    /\ building' = [building EXCEPT ![s] = <<Story(plan_of[s], clock)>>]
    /\ ppc' = [ppc EXCEPT ![s] = "built"]
    /\ UNCHANGED <<plan_of, disk, offered, clock>>
    /\ UNCHANGED <<sessVars, compVars>>

\* doc.build, line 226: the file is opened for writing, which empties it
OpenForWrite(s) ==
    /\ ppc[s] = "built"
    /\ disk' = (PDF_PATH :> <<>>) @@ disk
    /\ ppc' = [ppc EXCEPT ![s] = "opened"]
    /\ UNCHANGED <<plan_of, building, offered, clock>>
    /\ UNCHANGED <<sessVars, compVars>>

\* doc.build, line 226: the document is written and the file closed
WriteDocument(s) ==
    /\ ppc[s] = "opened"
    /\ disk' = (PDF_PATH :> building[s]) @@ disk
    /\ ppc' = [ppc EXCEPT ![s] = "written"]
    /\ UNCHANGED <<plan_of, building, offered, clock>>
    /\ UNCHANGED <<sessVars, compVars>>

\* lines 277-283: the file is read back and handed to the download button
ReadBack(s) ==
    /\ ppc[s] = "written"
    /\ offered' = [offered EXCEPT ![s] = <<disk[PDF_PATH]>>]
    /\ ppc' = [ppc EXCEPT ![s] = "idle"]
    /\ UNCHANGED <<plan_of, disk, building, clock>>
    /\ UNCHANGED <<sessVars, compVars>>

\* a minute passes
Tick ==
    /\ clock < MaxClock
    /\ clock' = clock + 1
    /\ UNCHANGED <<plan_of, ppc, disk, building, offered>>
    /\ UNCHANGED <<sessVars, compVars>>

NextPdf ==
    \/ \E s \in Sessions : BuildStory(s)
    \/ \E s \in Sessions : OpenForWrite(s)
    \/ \E s \in Sessions : WriteDocument(s)
    \/ \E s \in Sessions : ReadBack(s)
    \/ Tick

SpecPdf == InitPdf /\ [][NextPdf]_vars

\* C3: what a session offers for download is the document write_pdf built
\* in that session, from that session's plan.
C3_OwnRendering ==
    \A s \in Sessions :
        offered[s] # <<>> =>
            /\ offered[s][1] = building[s]
            /\ \E now \in 0..MaxClock :
                   offered[s][1] = <<Story(plan_of[s], now)>>

(***************************************************************************)
(* Properties of markdown_to_flowables (SpecCompile)                       *)
(***************************************************************************)
\* the flowables that came from line k (lines counted from 1)
BlocksOf(k) == {j \in 1..Len(flow) : src[j].first <= k /\ k <= src[j].last}

\* C4: every line that begins with "## " gives exactly one level-2 heading
\* whose text is the rest of the line with surrounding whitespace removed,
\* and every line that begins with "### " one level-3 heading, whatever
\* the rest of the line is.
C4_HeadingForEveryPrefixedLine ==
    cpc = "done" =>
        \A k \in 1..Len(lines) :
            /\ startswith(lines[k], <<"#", "#", " ">>) =>
                   \E j \in 1..Len(flow) :
                       /\ BlocksOf(k) = {j}
                       /\ flow[j] = Paragraph(strip(SliceFrom(lines[k], 3)), "H2")
            /\ startswith(lines[k], <<"#", "#", "#", " ">>) =>
                   \E j \in 1..Len(flow) :
                       /\ BlocksOf(k) = {j}
                       /\ flow[j] = Paragraph(strip(SliceFrom(lines[k], 4)), "H3")

\* The claim's own reading of a list line: after leading whitespace comes
\* one of the bullet characters.
ListLine(l) ==
    \E n \in 1..Len(l) :
        /\ \A m \in 1..(n - 1) : l[m] \in {" ", "\t"}
        /\ l[n] \in {"-", "*", Dot}

MaximalRun(a, b) ==
    /\ 1 <= a /\ a <= b /\ b <= Len(lines)
    /\ \A k \in a..b : ListLine(lines[k])
    /\ a = 1 \/ ~ListLine(lines[a - 1])
    /\ b = Len(lines) \/ ~ListLine(lines[b + 1])

ItemText(l) == strip(Tail(lstrip(l)))

\* what the blank / heading / paragraph rules can give for a line that is
\* not a list line: the blank-line spacer, or a heading or a paragraph made
\* of that line
NormalRules(l) ==
    IF \A m \in 1..Len(l) : l[m] \in {" ", "\t"} THEN {Spacer(SPACER_BLANK)}
    ELSE {Paragraph(strip(SliceFrom(l, 3)), "H2"),
          Paragraph(strip(SliceFrom(l, 4)), "H3"),
          Paragraph(rstrip(l), "BodyText")}

\* C5: each maximal run of n >= 1 list lines gives exactly one ListFlowable
\* with the n item texts in line order, directly followed by one Spacer;
\* the line after the run is compiled next, under the normal rules.
C5_OneListPerRun ==
    cpc = "done" =>
        /\ \A a \in 1..Len(lines), b \in 1..Len(lines) :
               MaximalRun(a, b) =>
                   \E j \in 1..Len(flow) :
                       /\ {m \in 1..Len(flow) :
                              /\ flow[m].kind = "ListFlowable"
                              /\ src[m].first <= b /\ a <= src[m].last} = {j}
                       /\ src[j] = [first |-> a, last |-> b]
                       /\ flow[j].items =
                              [n \in 1..(b - a + 1) |-> ItemText(lines[a + n - 1])]
                       /\ j + 1 <= Len(flow)
                       /\ flow[j + 1].kind = "Spacer"
                       /\ BlocksOf(a) = {j, j + 1}
                       /\ b < Len(lines) =>
                              /\ j + 2 <= Len(flow)
                              /\ BlocksOf(b + 1) = {j + 2}
                              /\ flow[j + 2] \in NormalRules(lines[b + 1])
                       /\ b = Len(lines) => Len(flow) = j + 1
        /\ \A j \in 1..Len(flow) :
               flow[j].kind = "ListFlowable" =>
                   MaximalRun(src[j].first, src[j].last)

\* C5 witness: a run of three list lines followed by a heading line.
C5_Witness ==
    /\ cpc = "done"
    /\ Len(lines) = 4
    /\ MaximalRun(1, 3)
    /\ lines[1] # lines[2]
    /\ lines[4] = <<"#", "#", " ", "A">>
    /\ Len(flow) = 3

\* The work left: lines not yet consumed, then the position in the pass.
Variant ==
    3 * (Len(lines) - i) +
        (CASE cpc = "done"  -> 0
           [] cpc = "outer" -> 1
           [] cpc = "inner" -> IF items = <<>> THEN 0 ELSE 2)

\* C6: the function returns on every text: every pass of the outer loop
\* moves the line index forward, the list branch collecting at least one
\* item; every step lessens the work left and a step is possible until the
\* return, where every line has given a flowable.
C6_Terminates ==
    /\ [][/\ cpc' = "outer" => i' > iter_start
          /\ cpc = "inner" /\ cpc' = "outer" => Len(items) >= 1
          /\ Variant' < Variant]_vars
    /\ [](i <= Len(lines))
    /\ [](cpc # "done" => ENABLED CompNext)
    /\ [](cpc = "done" =>
             /\ i = Len(lines)
             /\ \A k \in 1..Len(lines) : BlocksOf(k) # {})

\* C6 witness: a text of several lines, with an indented list line, has
\* been compiled.
C6_Witness ==
    /\ cpc = "done"
    /\ Len(lines) >= 3
    /\ \E j \in 1..Len(flow) :
           /\ flow[j].kind = "ListFlowable"
           /\ Head(lines[src[j].first]) = " "

====
